---- MODULE Spec2Model ----
(***************************************************************************)
(* A model of the pos energy blueprint experiment repository:              *)
(*   - the experiment orchestrators  src/experiment/experiment.py  and     *)
(*     src/experiment.py  (main and its helpers),                          *)
(*   - the submission validator      src/scripts/validate_submission.py,   *)
(*   - the leaderboard aggregator    src/scripts/build_leaderboard_index.py*)
(*                                                                         *)
(* Strings whose characters matter (user names, run ids, directory names)  *)
(* are sequences of one-character strings.  A remote call or a file read   *)
(* is an input of the program: its outcome is drawn when the call is made. *)
(* An exception nothing catches ends the process with status 1.            *)
(***************************************************************************)
EXTENDS Integers, Sequences, FiniteSets, TLC

VARIABLES
    \* ---- orchestrator (main of either experiment script)
    script,         \* which script runs
    args,           \* the parsed command line
    pc,             \* position in main
    calls,          \* remote operations issued so far, with their outcome
    result_folder,  \* returned by pos.allocations.allocate
    cores,          \* get_cpu_counts
    threads,
    loop_vars,      \* loop_vars["cores"], or <<>> before it is computed
    hw_json,        \* <<>> or <<hw_json: hardware.json as read, {} when unreadable>>
    manifest,       \* <<>> or <<the manifest dict>>
    submission,     \* what main wrote under submission/: <<>> or <<dir>>
    token_file,     \* args.zenodo_token_file: "unread", "missing" or "readable"
    exit_code,      \* <<>> while running, then <<status>>
    \* ---- validator (validate_submission.py)
    v_pc,           \* position in main
    v_runs,         \* scan_submissions: sequence of <<user, run>>
    v_i,            \* index of the run directory being validated
    v_fs,           \* per examined run directory, the files read so far
    v_out,          \* lines printed
    v_exit,         \* <<>> while running, then <<status>>
    \* ---- aggregator (build_leaderboard_index.py)
    a_pc,           \* position in main
    a_runs,         \* list_runs: sequence of [user, path]
    a_i,            \* index of the run being read
    a_seen,         \* per run read so far, what the fetch of its manifest gave
    a_out,          \* out["runs"]
    a_written,      \* <<>> or <<the document written to docs/leaderboard.json>>
    a_exit          \* <<>> while running, then <<status>>

orchVars == <<script, args, pc, calls, result_folder, cores, threads,
              loop_vars, hw_json, manifest, submission, token_file, exit_code>>
valVars  == <<v_pc, v_runs, v_i, v_fs, v_out, v_exit>>
aggVars  == <<a_pc, a_runs, a_i, a_seen, a_out, a_written, a_exit>>
vars     == <<orchVars, valVars, aggVars>>

\* ------------------------------------------------------------- bounds
MaxFlags   == 1     \* --bootparam flags on the command line
MaxSockets == 1     \* processor entries pos.nodes.show returns
MaxCores   == 2     \* cores of one processor entry
MaxCap     == 2     \* largest --loop-max
MaxRuns    == 2     \* run directories in the submission corpus

\* ------------------------------------------------------------ helpers
Range(s) == {s[i] : i \in DOMAIN s}

SeqsUpTo(S, n) == UNION {[1..k -> S] : k \in 0..n}

Max(a, b) == IF a >= b THEN a ELSE b
Min(a, b) == IF a <= b THEN a ELSE b

\* dict.get(k) or 0 / dict.get(k) or "" on a dict modelled as a record
\* that may lack the field
GetInt(d, k) == IF k \in DOMAIN d THEN d[k] ELSE 0
GetChars(d, k) == IF k \in DOMAIN d THEN d[k] ELSE <<>>
GetS(d, k) == IF k \in DOMAIN d THEN d[k] ELSE ""

\* a or b, on strings and on sequences of characters
OrS(a, b) == IF a # "" THEN a ELSE b
OrChars(a, b) == IF a # <<>> THEN a ELSE b
OrInt(a, b) == IF a # 0 THEN a ELSE b

EmptyDict == <<>>

ScriptNew == "experiment/experiment.py"
ScriptLegacy == "experiment.py"
Scripts == {ScriptNew, ScriptLegacy}

\* ------------------------------------------------- command line (argparse)
BootParams == {"iommu=pt", "quiet"}

\* action="append" with default=["iommu=pt"]: the flags follow the default
ParseBootparam(flags) == <<"iommu=pt">> \o flags

LoopMaxes == {<<>>} \cup {<<n>> : n \in (0 - 1)..MaxCap}

ArgsOf(s) ==
    IF s = ScriptNew
    THEN [bootparam : {ParseBootparam(f) : f \in SeqsUpTo(BootParams, MaxFlags)},
          enable_hyperthreading : BOOLEAN,
          loop_dimension : {"cores"},
          loop_max : {<<>>},
          publish : BOOLEAN]
    ELSE [bootparam : {ParseBootparam(f) : f \in SeqsUpTo(BootParams, MaxFlags)},
          enable_hyperthreading : {FALSE},
          loop_dimension : {"cores", "threads"},
          loop_max : LoopMaxes,
          publish : BOOLEAN]

\* ------------------------------------------------------ topology probe
\* one entry of the "processor" list of pos.nodes.show
PInfos ==
    {[cores |-> c] : c \in 0..MaxCores}
    \cup UNION {{[cores |-> c, threads |-> t] : t \in {0, c, 2 * c}} :
                 c \in 1..MaxCores}

Topologies == SeqsUpTo(PInfos, MaxSockets)

RECURSIVE sum_processor_counts(_, _)
sum_processor_counts(processor, key) ==
    IF processor = <<>> THEN 0
    ELSE LET pinfo == Head(processor)
             val   == IF key \in DOMAIN pinfo THEN pinfo[key]
                      ELSE IF key = "threads" THEN GetInt(pinfo, "cores")
                      ELSE 0
         IN  val + sum_processor_counts(Tail(processor), key)

\* list(range(1, n + 1))
RangeList(n) == [i \in 1..Max(n, 0) |-> i]

\* make_series of experiment/experiment.py: n = max(1, int(n or 1))
make_series_new(n) == RangeList(Max(1, IF n = 0 THEN 1 ELSE n))

\* make_series of experiment.py
make_series_legacy(n) == RangeList(n)

\* use = threads if args.enable_hyperthreading and threads else cores
LoopCountNew(a, c, t) ==
    IF a.enable_hyperthreading /\ t # 0 THEN t ELSE c

\* count = threads if loop_dimension == "threads" else cores;
\* if args.loop_max: count = min(count, args.loop_max)
LoopCountLegacy(a, c, t) ==
    LET count == IF a.loop_dimension = "threads" THEN t ELSE c
    IN  IF a.loop_max # <<>> /\ a.loop_max[1] # 0
        THEN Min(count, a.loop_max[1])
        ELSE count

LoopSeries(s, a, c, t) ==
    IF s = ScriptNew THEN make_series_new(LoopCountNew(a, c, t))
    ELSE make_series_legacy(LoopCountLegacy(a, c, t))

\* " ".join(args.bootparam)
RECURSIVE Join(_)
Join(s) ==
    IF s = <<>> THEN ""
    ELSE IF Len(s) = 1 THEN s[1]
    ELSE s[1] \o " " \o Join(Tail(s))

BootParamValue(a) == Join(a.bootparam)

\* ---------------------------------------------------- manifest builder
Unknown == <<"u", "n", "k", "n", "o", "w", "n">>

\* str.lower(), on the letters the model's names use
LowerChar(c) ==
    CASE c = "A" -> "a"
      [] c = "K" -> "k"
      [] c = "L" -> "l"
      [] c = "W" -> "w"
      [] OTHER -> c

Lower(s) == [i \in DOMAIN s |-> LowerChar(s[i])]

\* s.split(" ")[-1]: what follows the last space
RECURSIVE LastWord(_)
LastWord(s) ==
    IF \A i \in DOMAIN s : s[i] # " " THEN s
    ELSE LastWord(Tail(s))

\* " ".join(filter(None, [given, family]))
JoinNames(given, family) ==
    IF given = <<>> THEN family
    ELSE IF family = <<>> THEN given
    ELSE given \o <<" ">> \o family

\* tags(p): [t.lower() for t in (p.get("tags") or [])]
LowerTag(t) == IF t = "Author" THEN "author" ELSE t
Tags(p) == IF "tags" \in DOMAIN p THEN {LowerTag(t) : t \in Range(p.tags)} ELSE {}

\* "orcid.org" in s, "ror.org" in s, on the identifiers the model uses
OrcidIds == {"https://orcid.org/0000-0001"}
RorIds == {"https://ror.org/02kkvpp62"}

\* next((p for p in persons if cond(p)), None), as the index of the first
FirstIndex(persons, Cond(_)) ==
    LET hits == {i \in DOMAIN persons : Cond(persons[i])}
    IN  IF hits = {} THEN 0
        ELSE CHOOSE i \in hits : \A j \in hits : i <= j

_extract_author_from_rocrate(graph) ==
    LET persons == SelectSeq(graph, LAMBDA x : GetS(x, "type") = "Person")
        Both(p) == {"author", "main_author"} \subseteq Tags(p)
        One(p) == "author" \in Tags(p)
        k == OrInt(FirstIndex(persons, Both),
                   OrInt(FirstIndex(persons, One),
                         IF persons # <<>> THEN 1 ELSE 0))
    IN  IF k = 0 THEN EmptyDict
        ELSE
        LET pick == persons[k]
            display == OrChars(GetChars(pick, "name"),
                               JoinNames(GetChars(pick, "givenName"),
                                         GetChars(pick, "familyName")))
            alt == GetChars(pick, "alternateName")
            handle == OrChars(alt, IF display # <<>>
                                   THEN Lower(LastWord(display)) ELSE <<>>)
            aff_id == GetS(pick, "affiliation")
            aff_ror == OrS(GetS(pick, "affiliation_ror"),
                           IF aff_id \in RorIds THEN aff_id ELSE "")
        IN  [display_name |-> OrChars(display, OrChars(handle, Unknown)),
             handle |-> OrChars(handle, Unknown),
             orcid |-> IF GetS(pick, "id") \in OrcidIds
                       THEN GetS(pick, "id") ELSE "",
             affiliation_name |-> GetS(pick, "affiliation_name"),
             affiliation_ror |-> aff_ror]

\* username = author.get("handle") or author.get("display_name") or "unknown"
Username(author) ==
    OrChars(GetChars(author, "handle"),
            OrChars(GetChars(author, "display_name"), Unknown))

\* author.pop("handle", None)
PopHandle(author) == [k \in DOMAIN author \ {"handle"} |-> author[k]]

\* hardware.json as read by _read_json(...) or {}: a dict or another value
HwDict(d) == [kind |-> "dict", d |-> d]
HwOther == [kind |-> "list"]

NormProcessor(p, hw) ==
    [slot |-> OrS(GetS(p, "slot"), OrS(GetS(p, "id"), "CPU")),
     vendor |-> OrS(GetS(p, "vendor"), GetS(p, "manufacturer")),
     model |-> OrS(GetS(p, "model"), OrS(GetS(p, "name"), GetS(hw, "cpu_model"))),
     cores |-> GetInt(p, "cores"),
     threads |-> OrInt(GetInt(p, "threads"), GetInt(p, "cores")),
     architecture |-> OrS(GetS(p, "architecture"),
                          OrS(GetS(hw, "architecture"), "x86_64"))]

RECURSIVE NormProcessors(_, _)
NormProcessors(procs, hw) ==
    IF procs = <<>> THEN <<>>
    ELSE IF "nondict" \in DOMAIN Head(procs)
         THEN NormProcessors(Tail(procs), hw)
         ELSE <<NormProcessor(Head(procs), hw)>> \o NormProcessors(Tail(procs), hw)

_extract_processors_from_hw(hwv) ==
    IF hwv.kind # "dict" THEN <<>>
    ELSE LET hw == hwv.d
         IN  IF "processor" \in DOMAIN hw /\ hw.processor # <<>>
             THEN NormProcessors(hw.processor, hw)
             ELSE << [slot |-> "CPU",
                      vendor |-> OrS(GetS(hw, "vendor"), GetS(hw, "cpu_vendor")),
                      model |-> OrS(GetS(hw, "model"), GetS(hw, "cpu_model")),
                      cores |-> OrInt(GetInt(hw, "cores"), GetInt(hw, "cpu_cores")),
                      threads |-> OrInt(GetInt(hw, "threads"),
                                  OrInt(GetInt(hw, "cpu_threads"),
                                  OrInt(GetInt(hw, "cores"), GetInt(hw, "cpu_cores")))),
                      architecture |-> OrS(GetS(hw, "architecture"), "x86_64")] >>

\* JSON values of metrics.json
Num(n) == [t |-> "num", v |-> n]
Null == [t |-> "null"]
JGet(d, k) == IF k \in DOMAIN d THEN d[k] ELSE Null

\* _read_metrics: mf is <<>> (no file, bad JSON, not a dict) or <<dict>>
_read_metrics(mf) ==
    IF mf = <<>> THEN EmptyDict
    ELSE [avg_power_w |-> JGet(mf[1], "avg_power_w"),
          peak_power_w |-> JGet(mf[1], "peak_power_w"),
          energy_wh |-> JGet(mf[1], "energy_wh")]

\* Path(result_folder).name
PathName(path) == IF path = <<>> THEN <<>> ELSE path[Len(path)]

\* ------------------------------------ inputs of the orchestrator's run
Node == "n1"

ResultFolders ==
    { << <<"k", "w">>, <<"r", "1">> >>, << <<"r", ":", "2">> >> }

Crates ==
    { <<>>,
      << [type |-> "Dataset"],
         [type |-> "Person", name |-> <<"A", " ", "L">>, alternateName |-> <<"K", "W">>] >>,
      << [type |-> "Person", name |-> <<"A", " ", "L">>],
         [type |-> "Person", givenName |-> <<"k">>, familyName |-> <<"w">>,
          tags |-> <<"Author", "main_author">>, id |-> "https://orcid.org/0000-0001",
          affiliation |-> "https://ror.org/02kkvpp62"] >> }

HwFiles ==
    { HwDict(EmptyDict),
      HwDict([cores |-> 2]),
      HwDict([processor |-> << [nondict |-> TRUE] >>, cores |-> 2]),
      HwDict([processor |-> << [cores |-> 2, vendor |-> "AMD", model |-> "EPYC"],
                               [nondict |-> TRUE] >>]) }

MetricsFiles ==
    { <<>>,
      << [avg_power_w |-> Num(3), peak_power_w |-> Num(5), energy_wh |-> Num(1)] >>,
      << [avg_power_w |-> Num(3)] >> }

Wanted ==
    {"power-over-time.png", "total-energy-per-node.png",
     "current-over-time.png", "smoothed-voltage.png"}

\* the plots found in the result folder's energy/ directory: none, all, one
\* only, all but one
PlotSets ==
    { {}, Wanted, {"power-over-time.png"}, Wanted \ {"smoothed-voltage.png"} }

\* what pos.results.upload returns: a link, or nothing
DepositionLinks == {"", "https://sandbox.zenodo.org/deposit/1"}


\* ------------------------------------------------ orchestrator: main()
Issue(op, arg, ok) == calls' = Append(calls, [op |-> op, arg |-> arg, ok |-> ok])

\* mutant: the exception is caught and the process reports success
RaiseExitZero == pc' = "crashed" /\ exit_code' = <<0>>

\* an exception nothing catches: traceback, exit status 1
Raise == pc' = "crashed" /\ exit_code' = <<1>>

Goto(next) == pc' = next /\ exit_code' = exit_code

\* mutant: the outcome of the call is ignored
RemoteUnchecked(op, arg, next) ==
    \E ok \in BOOLEAN :
        /\ Issue(op, arg, ok)
        /\ Goto(next)

\* a remote call that returns, or raises
Remote(op, arg, next) ==
    \E ok \in BOOLEAN :
        /\ Issue(op, arg, ok)
        /\ IF ok THEN Goto(next) ELSE Raise

\* where main goes after pos.energy.visualize, and after the publish block
AfterVisualize ==
    IF script = ScriptNew THEN "build_manifest"
    ELSE IF args.publish THEN "read_token" ELSE "return"
AfterPublish == IF script = ScriptNew THEN "write_manifest" ELSE "return"

\* pos.allocations.free(args.loadgen)
Free ==
    /\ pc = "free"
    /\ Remote("free", <<>>, "allocate")
    /\ UNCHANGED <<script, args, token_file, result_folder, cores, threads, loop_vars,
                   manifest, submission, hw_json, valVars, aggVars>>

\* alloc_id, _, result_folder = pos.allocations.allocate([args.loadgen])
Allocate ==
    /\ pc = "allocate"
    /\ \/ /\ Issue("allocate", <<>>, TRUE)
          /\ result_folder' \in ResultFolders
          /\ Goto("show")
       \/ /\ Issue("allocate", <<>>, FALSE)
          /\ result_folder' = result_folder
          /\ Raise
    /\ UNCHANGED <<script, args, token_file, cores, threads, loop_vars,
                   manifest, submission, hw_json, valVars, aggVars>>

\* cores, threads = get_cpu_counts(...); loop_vars = {"cores": make_series(...)}
GetCpuCounts ==
    /\ pc = "show"
    /\ \/ \E processor \in Topologies :
            LET c == sum_processor_counts(processor, "cores")
                t == sum_processor_counts(processor, "threads")
            IN  /\ Issue("show", <<>>, TRUE)
                /\ cores' = c
                /\ threads' = t
                /\ loop_vars' = LoopSeries(script, args, c, t)
                /\ Goto("set_globals")
       \/ /\ Issue("show", <<>>, FALSE)
          /\ UNCHANGED <<cores, threads, loop_vars>>
          /\ Raise
    /\ UNCHANGED <<script, args, token_file, result_folder, manifest, submission,
                   hw_json, valVars, aggVars>>

\* set_variables_from_path(..., as_global=True, as_loop=False)
SetGlobals ==
    /\ pc = "set_globals"
    /\ \/ Remote("set_globals", <<>>, "set_loop")
       \/ \* _load_vars_from_path raises: the file is missing or malformed
          /\ calls' = calls
          /\ Raise
    /\ UNCHANGED <<script, args, token_file, result_folder, cores, threads, loop_vars,
                   manifest, submission, hw_json, valVars, aggVars>>

\* set_inline_loop_variables(args.loadgen, loop_vars, log)
SetLoop ==
    /\ pc = "set_loop"
    /\ Remote("set_loop", loop_vars, "image")
    /\ UNCHANGED <<script, args, token_file, result_folder, cores, threads, loop_vars,
                   manifest, submission, hw_json, valVars, aggVars>>

\* pos.nodes.image(args.loadgen, args.image)
ApplyImage ==
    /\ pc = "image"
    /\ Remote("image", <<>>, "bootparameters")
    /\ UNCHANGED <<script, args, token_file, result_folder, cores, threads, loop_vars,
                   manifest, submission, hw_json, valVars, aggVars>>

\* pos.nodes.bootparameters(args.loadgen, joined, delete=False)
BootParameters ==
    /\ pc = "bootparameters"
    /\ Remote("bootparameters", BootParamValue(args), "reset")
    /\ UNCHANGED <<script, args, token_file, result_folder, cores, threads, loop_vars,
                   manifest, submission, hw_json, valVars, aggVars>>

\* pos.nodes.reset(args.loadgen, blocking=True)
Reset ==
    /\ pc = "reset"
    /\ Remote("reset", <<>>, "setup")
    /\ UNCHANGED <<script, args, token_file, result_folder, cores, threads, loop_vars,
                   manifest, submission, hw_json, valVars, aggVars>>

\* run_infile(..., name="setup", loop=False)
RunSetup ==
    /\ pc = "setup"
    /\ \/ Remote("setup", <<>>, "workload")
       \/ \* open(script_path) raises
          /\ calls' = calls
          /\ Raise
    /\ UNCHANGED <<script, args, token_file, result_folder, cores, threads, loop_vars,
                   manifest, submission, hw_json, valVars, aggVars>>

\* run_infile(..., name="energy-stress-test", loop=True)
RunWorkload ==
    /\ pc = "workload"
    /\ \/ Remote("workload", <<>>, "visualize")
       \/ /\ calls' = calls
          /\ Raise
    /\ UNCHANGED <<script, args, token_file, result_folder, cores, threads, loop_vars,
                   manifest, submission, hw_json, valVars, aggVars>>

\* pos.energy.visualize(result_dir=result_folder, ...)
Visualize ==
    /\ pc = "visualize"
    /\ Remote("visualize", <<>>, AfterVisualize)
    /\ UNCHANGED <<script, args, token_file, result_folder, cores, threads, loop_vars,
                   manifest, submission, hw_json, valVars, aggVars>>

\* experiment/experiment.py: the manifest dict, from the result folder's files
BuildManifest ==
    /\ pc = "build_manifest"
    /\ \E graph \in Crates, hw \in HwFiles, mf \in MetricsFiles :
          LET author == _extract_author_from_rocrate(graph)
          IN  /\ hw_json' = <<hw>>
              /\ manifest' = << [run_id |-> PathName(result_folder),
                                 node |-> Node,
                                 created |-> "utc-iso",
                                 username |-> Username(author),
                                 author |-> PopHandle(author),
                                 processor |-> _extract_processors_from_hw(hw),
                                 threading_enabled |-> args.enable_hyperthreading,
                                 metrics |-> _read_metrics(mf),
                                 zenodo_html |-> ""] >>
    /\ Goto(IF args.publish THEN "read_token" ELSE "write_manifest")
    /\ UNCHANGED <<script, args, token_file, calls, result_folder, cores, threads, loop_vars,
                   submission, valVars, aggVars>>

\* if args.publish: with open(args.zenodo_token_file) as f: token = f.read()
ReadToken ==
    /\ pc = "read_token"
    /\ \/ /\ token_file' = "readable"
          /\ Goto("upload")
       \/ \* the token file is absent or unreadable: open raises
          /\ token_file' = "missing"
          /\ Raise
    /\ UNCHANGED <<script, args, calls, result_folder, cores, threads, loop_vars,
                   manifest, submission, hw_json, valVars, aggVars>>

\* deposition_link = pos.results.upload(...);
\* manifest["zenodo_html"] = deposition_link or ""
Upload ==
    /\ pc = "upload"
    /\ \/ \E link \in DepositionLinks :
            /\ Issue("upload", <<>>, TRUE)
            /\ manifest' = IF manifest = <<>> THEN manifest
                           ELSE << [manifest[1] EXCEPT !.zenodo_html = link] >>
            /\ Goto(AfterPublish)
       \/ /\ Issue("upload", <<>>, FALSE)
          /\ manifest' = manifest
          /\ Raise
    /\ UNCHANGED <<script, args, token_file, result_folder, cores, threads, loop_vars,
                   submission, hw_json, valVars, aggVars>>

\* sub_dir.mkdir(...); sub_energy.mkdir(...); json.dump(manifest, f, indent=2)
WriteManifest ==
    /\ pc = "write_manifest"
    /\ submission' = << [username |-> manifest[1].username,
                         run_id |-> manifest[1].run_id,
                         manifest |-> manifest[1],
                         energy |-> {}] >>
    /\ Goto("copy_plots")
    /\ UNCHANGED <<script, args, token_file, calls, result_folder, cores, threads, loop_vars,
                   manifest, hw_json, valVars, aggVars>>

\* for name in wanted: copy it if the visualizer wrote it, else warn
CopyPlots ==
    /\ pc = "copy_plots"
    /\ \E present \in PlotSets :
          submission' = << [submission[1] EXCEPT !.energy = present] >>
    /\ Goto("return")
    /\ UNCHANGED <<script, args, token_file, calls, result_folder, cores, threads, loop_vars,
                   manifest, hw_json, valVars, aggVars>>

\* return 0
Return ==
    /\ pc = "return"
    /\ pc' = "done"
    /\ exit_code' = <<0>>
    /\ UNCHANGED <<script, args, token_file, calls, result_folder, cores, threads, loop_vars,
                   manifest, submission, hw_json, valVars, aggVars>>

OrchNext ==
    \/ Free \/ Allocate \/ GetCpuCounts \/ SetGlobals \/ SetLoop \/ ApplyImage
    \/ BootParameters \/ Reset \/ RunSetup \/ RunWorkload \/ Visualize
    \/ BuildManifest \/ ReadToken \/ Upload \/ WriteManifest \/ CopyPlots
    \/ Return

ValIdle ==
    /\ v_pc = "idle" /\ v_runs = <<>> /\ v_i = 0 /\ v_fs = <<>>
    /\ v_out = <<>> /\ v_exit = <<>>

AggIdle ==
    /\ a_pc = "idle" /\ a_runs = <<>> /\ a_i = 0 /\ a_seen = <<>>
    /\ a_out = <<>> /\ a_written = <<>> /\ a_exit = <<>>

OrchIdle ==
    /\ script = ScriptNew
    /\ args = [bootparam |-> ParseBootparam(<<>>), enable_hyperthreading |-> FALSE,
               loop_dimension |-> "cores", loop_max |-> <<>>, publish |-> FALSE]
    /\ pc = "idle" /\ calls = <<>> /\ result_folder = <<>>
    /\ cores = 0 /\ threads = 0 /\ loop_vars = <<>>
    /\ hw_json = <<>> /\ manifest = <<>> /\ submission = <<>> /\ token_file = "unread"
    /\ exit_code = <<>>

OrchInit ==
    /\ script \in Scripts
    /\ args \in ArgsOf(script)
    /\ pc = "free" /\ calls = <<>> /\ result_folder = <<>>
    /\ cores = 0 /\ threads = 0 /\ loop_vars = <<>>
    /\ hw_json = <<>> /\ manifest = <<>> /\ submission = <<>> /\ token_file = "unread"
    /\ exit_code = <<>>

Init == OrchInit /\ ValIdle /\ AggIdle

Next == OrchNext

\* one run of an experiment script
Spec == Init /\ [][Next]_vars

\* ==================================== validator: validate_submission.py
MAX_PNG_MB == 5
UserMaxLen == 40
RunMaxLen == 80
MaxNodes == 2       \* node directories under config/
MaxLen == 2         \* length of the short strings tried against the patterns

LF == "\n"

LowerLetters ==
    {"a", "b", "c", "d", "e", "f", "g", "h", "i", "j", "k", "l", "m",
     "n", "o", "p", "q", "r", "s", "t", "u", "v", "w", "x", "y", "z"}
UpperLetters ==
    {"A", "B", "C", "D", "E", "F", "G", "H", "I", "J", "K", "L", "M",
     "N", "O", "P", "Q", "R", "S", "T", "U", "V", "W", "X", "Y", "Z"}
Digits == {"0", "1", "2", "3", "4", "5", "6", "7", "8", "9"}

\* [a-z0-9._-] and [a-zA-Z0-9._:-]
UserClass == LowerLetters \cup Digits \cup {".", "_", "-"}
RunClass == LowerLetters \cup UpperLetters \cup Digits \cup {".", "_", ":", "-"}

\* re.compile(r"^[class]{lo,hi}$").match(s): "$" matches at the end of the
\* string and also just before a line break that ends the string
ReMatch(s, class, lo, hi) ==
    \E n \in lo..hi :
        /\ n <= Len(s)
        /\ \A i \in 1..n : s[i] \in class
        /\ \/ Len(s) = n
           \/ Len(s) = n + 1 /\ s[n + 1] = LF

RE_USER(s) == ReMatch(s, UserClass, 1, UserMaxLen)
RE_RUN(s) == ReMatch(s, RunClass, 1, RunMaxLen)

\* JSON values
JStr(cs) == [t |-> "str", v |-> cs]
JObj(f) == [t |-> "obj", f |-> f]
JBool(b) == [t |-> "bool", v |-> b]
JList == [t |-> "list"]

When(b, msg) == IF b THEN <<msg>> ELSE <<>>

\* a property that is present and not of the type the schema asks for
WrongType(f, k, t) == k \in DOMAIN f /\ f[k].t # t

MetricsErrors(m) ==
    IF m.t # "obj" THEN <<"metrics is not of type 'object'">>
    ELSE When(WrongType(m.f, "avg_power_w", "num"), "avg_power_w is not of type 'number'")
      \o When(WrongType(m.f, "peak_power_w", "num"), "peak_power_w is not of type 'number'")
      \o When(WrongType(m.f, "energy_wh", "num"), "energy_wh is not of type 'number'")

\* Draft7Validator(MANIFEST_SCHEMA).iter_errors(data)
SchemaErrors(data) ==
    IF data.t # "obj" THEN <<"data is not of type 'object'">>
    ELSE LET f == data.f
         IN  When(WrongType(f, "username", "str"), "username is not of type 'string'")
          \o When(WrongType(f, "run_id", "str"), "run_id is not of type 'string'")
          \o When(WrongType(f, "created", "str"), "created is not of type 'string'")
          \o When(WrongType(f, "zenodo_html", "str"), "zenodo_html is not of type 'string'")
          \o (IF "metrics" \in DOMAIN f THEN MetricsErrors(f.metrics) ELSE <<>>)
          \o When("username" \notin DOMAIN f, "'username' is a required property")
          \o When("run_id" \notin DOMAIN f, "'run_id' is a required property")

\* manifest.json on disk
NoFile == [kind |-> "missing"]
BadJson == [kind |-> "badjson"]
JsonFile(j) == [kind |-> "json", value |-> j]

\* validate_manifest: what it prints before it fails; <<>> when it returns
ManifestErrors(file) ==
    IF file.kind = "missing" THEN <<"::error::Missing manifest.json">>
    ELSE IF file.kind = "badjson" THEN <<"::error::manifest.json not valid JSON">>
    ELSE LET errs == SchemaErrors(file.value)
         IN  IF errs # <<>>
             THEN [i \in DOMAIN errs |-> "::error::manifest schema: " \o errs[i]]
                  \o <<"::error::manifest schema validation failed">>
             ELSE IF ~RE_USER(file.value.f.username.v)
             THEN <<"::error::username has invalid characters">>
             ELSE IF ~RE_RUN(file.value.f.run_id.v)
             THEN <<"::error::run_id has invalid characters">>
             ELSE <<>>

\* mutant: only the user name is compared with the folder
IdentityErrorsUserOnly(data, user, run) ==
    IF data.f.username.v # user
    THEN <<"::error::manifest.username does not match folder name">>
    ELSE <<>>

\* main: the manifest's identity against the directory's
IdentityErrors(data, user, run) ==
    IF data.f.username.v # user
    THEN <<"::error::manifest.username does not match folder name">>
    ELSE IF data.f.run_id.v # run
    THEN <<"::error::manifest.run_id does not match folder name">>
    ELSE <<>>

\* a plot file on disk
NoPng == [kind |-> "missing"]
Png(size, image) == [kind |-> "file", size |-> size, image |-> image]

MB == 1024 * 1024

\* mutant: a file of exactly MAX_PNG_MB is too large
PngErrorsExclusive(file) ==
    IF file.kind = "missing" THEN <<"::error::Missing PNG">>
    ELSE IF file.size >= MAX_PNG_MB * MB THEN <<"::error::PNG too large">>
    ELSE IF ~file.image THEN <<"::error::Invalid PNG">>
    ELSE <<>>

\* validate_png: size_mb = st_size / (1024 * 1024), exact for these sizes
PngErrors(file) ==
    IF file.kind = "missing" THEN <<"::error::Missing PNG">>
    ELSE IF file.size > MAX_PNG_MB * MB THEN <<"::error::PNG too large">>
    ELSE IF ~file.image THEN <<"::error::Invalid PNG">>
    ELSE <<>>

PngNames ==
    <<"power-over-time.png", "total-energy-per-node.png",
      "current-over-time.png", "smoothed-voltage.png">>

\* config/: absent, or the hardware.json of each node directory in the
\* order iterdir lists them ("absent", "valid" or "invalid")
NoConfig == [exists |-> FALSE, nodes |-> <<>>]
Config(nodes) == [exists |-> TRUE, nodes |-> nodes]

\* main: hw = nodes[0] / "hardware.json"
HardwareErrors(cfg) ==
    IF cfg.exists /\ cfg.nodes # <<>> /\ cfg.nodes[1] = "invalid"
    THEN <<"::error::hardware.json invalid JSON">>
    ELSE <<>>

\* ---- inputs of the validator
DirNames == { <<"a">>, <<"b">> }
RunNames == { <<"r">>, <<"R", ":", "1">> }

\* scan_submissions: the run directories, user by user
Listings ==
    {l \in SeqsUpTo(DirNames \X RunNames, MaxRuns) :
        /\ \A i, j \in DOMAIN l : i # j => l[i] # l[j]
        /\ \A i, j, k \in DOMAIN l :
              (i < j /\ j < k /\ l[i][1] = l[k][1]) => l[j][1] = l[i][1]}

ManifestValues ==
    { JList, JObj(EmptyDict),
      JObj([username |-> Num(7), run_id |-> JStr(<<"r">>)]),
      JObj([username |-> JStr(<<"a">>), run_id |-> JStr(<<"r">>),
            metrics |-> JObj([avg_power_w |-> Null])]),
      JObj([username |-> JStr(<<"a">>), run_id |-> JStr(<<"r">>),
            metrics |-> JObj([avg_power_w |-> Num(3)]), zenodo_html |-> JStr(<<>>)]),
      JObj([username |-> JStr(<<"b">>), run_id |-> JStr(<<"R", ":", "1">>)]),
      JObj([username |-> JStr(<<"a">>), run_id |-> JStr(<<"R", ":", "1">>)]),
      JObj([username |-> JStr(<<"A">>), run_id |-> JStr(<<"r">>)]),
      JObj([username |-> JStr(<<"a">>), run_id |-> JStr(<<"r", "/">>)]) }

Manifests == {NoFile, BadJson} \cup {JsonFile(j) : j \in ManifestValues}

PngFiles ==
    {NoPng, Png(0, FALSE), Png(MAX_PNG_MB * MB, TRUE),
     Png(MAX_PNG_MB * MB + 1, TRUE)}

Configs ==
    {NoConfig} \cup {Config(n) : n \in SeqsUpTo({"absent", "valid", "invalid"}, MaxNodes)}

\* ---- main()
Unread == [manifest |-> <<>>, pngs |-> <<>>, config |-> <<>>]

\* mutant: the error is printed and validation goes on
FailAndGoOn(lines) ==
    /\ v_out' = v_out \o lines
    /\ v_pc' = "hardware"
    /\ v_exit' = v_exit

\* fail(msg): print the error, raise SystemExit(1)
Fail(lines) ==
    /\ v_out' = v_out \o lines
    /\ v_pc' = "failed"
    /\ v_exit' = <<1>>

\* runs = scan_submissions(sub_root); if not runs: ... return 0
ScanSubmissions ==
    /\ v_pc = "scan"
    /\ \E l \in Listings :
          /\ v_runs' = l
          /\ IF l = <<>>
             THEN /\ v_out' = Append(v_out, "No submissions found; nothing to validate.")
                  /\ v_pc' = "done" /\ v_exit' = <<0>>
                  /\ UNCHANGED <<v_i, v_fs>>
             ELSE /\ v_out' = Append(v_out, "Validating")
                  /\ v_pc' = "manifest" /\ v_exit' = v_exit
                  /\ v_i' = 1 /\ v_fs' = <<Unread>>
    /\ UNCHANGED <<orchVars, aggVars>>

\* manifest = validate_manifest(run_dir / "manifest.json")
ValidateManifest(file) ==
    /\ v_pc = "manifest"
    /\ v_fs' = [v_fs EXCEPT ![v_i].manifest = <<file>>]
    /\ IF ManifestErrors(file) # <<>>
       THEN Fail(ManifestErrors(file))
       ELSE v_pc' = "identity" /\ UNCHANGED <<v_out, v_exit>>
    /\ UNCHANGED <<v_runs, v_i, orchVars, aggVars>>

\* if manifest["username"] != user: fail(...); if manifest["run_id"] != run: ...
CheckIdentity ==
    /\ v_pc = "identity"
    /\ LET errs == IdentityErrors(v_fs[v_i].manifest[1].value,
                                  v_runs[v_i][1], v_runs[v_i][2])
       IN  IF errs # <<>>
           THEN Fail(errs)
           ELSE v_pc' = "pngs" /\ UNCHANGED <<v_out, v_exit>>
    /\ UNCHANGED <<v_runs, v_i, v_fs, orchVars, aggVars>>

\* validate_png(energy / name), for the next of the four names
ValidatePng(file) ==
    /\ v_pc = "pngs"
    /\ v_fs' = [v_fs EXCEPT ![v_i].pngs = Append(@, file)]
    /\ IF PngErrors(file) # <<>>
       THEN Fail(PngErrors(file))
       ELSE /\ v_pc' = IF Len(v_fs[v_i].pngs) + 1 = Len(PngNames)
                       THEN "hardware" ELSE "pngs"
            /\ UNCHANGED <<v_out, v_exit>>
    /\ UNCHANGED <<v_runs, v_i, orchVars, aggVars>>

\* the optional hardware.json, then the next run directory or the end
CheckHardware(cfg) ==
    /\ v_pc = "hardware"
    /\ IF HardwareErrors(cfg) # <<>>
       THEN /\ Fail(HardwareErrors(cfg))
            /\ v_fs' = [v_fs EXCEPT ![v_i].config = <<cfg>>]
            /\ v_i' = v_i
       ELSE IF v_i < Len(v_runs)
       THEN /\ v_out' = Append(v_out, "Validating")
            /\ v_pc' = "manifest" /\ v_exit' = v_exit
            /\ v_i' = v_i + 1
            /\ v_fs' = Append([v_fs EXCEPT ![v_i].config = <<cfg>>], Unread)
       ELSE /\ v_out' = Append(v_out, "All submissions validated.")
            /\ v_pc' = "done" /\ v_exit' = <<0>>
            /\ v_fs' = [v_fs EXCEPT ![v_i].config = <<cfg>>]
            /\ v_i' = v_i
    /\ UNCHANGED <<v_runs, orchVars, aggVars>>

ValInit ==
    /\ v_pc = "scan" /\ v_runs = <<>> /\ v_i = 0 /\ v_fs = <<>>
    /\ v_out = <<>> /\ v_exit = <<>>

ValNext ==
    \/ ScanSubmissions
    \/ \E file \in Manifests : ValidateManifest(file)
    \/ CheckIdentity
    \/ \E file \in PngFiles : ValidatePng(file)
    \/ \E cfg \in Configs : CheckHardware(cfg)

ValSpecInit == OrchIdle /\ ValInit /\ AggIdle

\* one run of the validator over a submission tree
ValSpec == ValSpecInit /\ [][ValNext]_vars

\* ============================ aggregator: build_leaderboard_index.py
\* what read_manifest meets for one run:
\*   not_found   gh_contents answers 404 (or no file entry): no download url
\*   http_error  a request fails or raise_for_status raises
\*   bad_json    r.json() raises
\*   json        the parsed document: a dict, or another JSON value
NotFound == [kind |-> "not_found"]
HttpError == [kind |-> "http_error"]
BadJsonBody == [kind |-> "bad_json"]
JsonDict(d) == [kind |-> "json", isdict |-> TRUE, value |-> d]
JsonOther(truthy) == [kind |-> "json", isdict |-> FALSE, truthy |-> truthy]

\* read_manifest(path): <<>> when it raises, else <<the value returned>>
\* ({} when there is no download url or the body is not JSON)
read_manifest(fetch) ==
    IF fetch.kind = "http_error" THEN <<>>
    ELSE IF fetch.kind \in {"not_found", "bad_json"} THEN <<JsonDict(EmptyDict)>>
    ELSE <<fetch>>

\* `not manifest` in main
Falsy(m) ==
    IF m.isdict THEN DOMAIN m.value = {} ELSE ~m.truthy

\* " ".join([vendor, model]).strip() or "unknown"
CpuLabel(vendor, model) ==
    IF vendor = "" /\ model = "" THEN "unknown"
    ELSE IF vendor = "" THEN model
    ELSE IF model = "" THEN vendor
    ELSE vendor \o " " \o model

RECURSIVE SumField(_, _)
SumField(procs, key) ==
    IF procs = <<>> THEN 0
    ELSE GetInt(Head(procs), key) + SumField(Tail(procs), key)

\* name.lower() of the entries of energy/
LowerName(n) ==
    CASE n = "Power-Over-Time.PNG" -> "power-over-time.png"
      [] OTHER -> n

IsPng(n) ==
    LowerName(n) \in Range(PngNames) \cup {"extra.png"}

\* by_lower: the url of the last file entry whose lowered name is `name`
RECURSIVE ImageUrl(_, _)
ImageUrl(entries, name) ==
    IF entries = <<>> THEN ""
    ELSE LET ent == entries[Len(entries)]
         IN  IF ent.type = "file" /\ IsPng(ent.name) /\ LowerName(ent.name) = name
             THEN ent.download_url
             ELSE ImageUrl(SubSeq(entries, 1, Len(entries) - 1), name)

\* summarize(manifest, run), with the listing of the run's energy/ directory
summarize(m, run, entries) ==
    LET author == IF "author" \in DOMAIN m THEN m.author ELSE EmptyDict
        user == OrChars(GetChars(m, "username"), run.user)
        user_display == OrChars(GetChars(author, "display_name"),
                        OrChars(GetChars(author, "name"),
                        OrChars(GetChars(author, "alternateName"), user)))
        handle == OrChars(GetChars(author, "handle"),
                  OrChars(GetChars(author, "alternateName"), user))
        procs == IF "processor" \in DOMAIN m THEN m.processor ELSE <<>>
    IN  [id |-> OrChars(GetChars(m, "run_id"), run.path[Len(run.path)]),
         user |-> handle,
         user_display |-> user_display,
         affiliation_name |-> GetS(author, "affiliation_name"),
         affiliation_ror |-> GetS(author, "affiliation_ror"),
         cpu_label |-> IF procs = <<>> THEN "unknown"
                       ELSE CpuLabel(GetS(procs[1], "vendor"), GetS(procs[1], "model")),
         cores |-> SumField(procs, "cores"),
         threads |-> SumField(procs, "threads"),
         ht_badge |-> IF "threading_enabled" \in DOMAIN m /\ ~m.threading_enabled
                      THEN " (HT off)" ELSE "",
         avg_power_w |-> JGet(IF "metrics" \in DOMAIN m THEN m.metrics ELSE EmptyDict,
                              "avg_power_w"),
         peak_power_w |-> JGet(IF "metrics" \in DOMAIN m THEN m.metrics ELSE EmptyDict,
                               "peak_power_w"),
         energy_wh |-> JGet(IF "metrics" \in DOMAIN m THEN m.metrics ELSE EmptyDict,
                            "energy_wh"),
         created |-> GetS(m, "created"),
         zenodo |-> GetS(m, "zenodo_html"),
         images |-> [k \in DOMAIN PngNames |-> ImageUrl(entries, PngNames[k])],
         node |-> GetS(m, "node")]

\* ---- inputs of the aggregator
AggManifests ==
    { [run_id |-> <<"r">>],
      [username |-> <<"a">>, run_id |-> <<"r">>, node |-> "n1", created |-> "utc-iso",
       author |-> [display_name |-> <<"A", " ", "L">>, orcid |-> "",
                   affiliation_name |-> "TUM", affiliation_ror |-> ""],
       processor |-> << [slot |-> "CPU", vendor |-> "AMD", model |-> "EPYC",
                         cores |-> 2, threads |-> 4, architecture |-> "x86_64"] >>,
       threading_enabled |-> FALSE,
       metrics |-> [avg_power_w |-> Num(3), peak_power_w |-> Num(5),
                    energy_wh |-> Null],
       zenodo_html |-> ""] }

Fetches ==
    {NotFound, HttpError, BadJsonBody, JsonDict(EmptyDict), JsonOther(FALSE),
     JsonOther(TRUE)}
    \cup {JsonDict(m) : m \in AggManifests}

File(n) == [type |-> "file", name |-> n, download_url |-> "https://raw/" \o n]

\* gh_contents(energy_dir): <<>> when the request raises, else <<entries>>
EnergyListings ==
    { <<>>,
      << <<>> >>,
      << <<File("power-over-time.png"), File("total-energy-per-node.png"),
           File("current-over-time.png"), File("smoothed-voltage.png")>> >>,
      << <<File("Power-Over-Time.PNG"), [type |-> "dir", name |-> "extra.png"]>> >> }

\* ---- main()
AggCrash == a_pc' = "crashed" /\ a_exit' = <<1>>

\* after a run: the next one, or the write
AggAdvance ==
    IF a_i < Len(a_runs)
    THEN a_pc' = "read" /\ a_i' = a_i + 1
    ELSE a_pc' = "write" /\ a_i' = a_i

\* runs = list_runs(): the listing requests answer, or one of them raises
ListRuns ==
    /\ a_pc = "list"
    /\ \/ \E l \in Listings :
            /\ a_runs' = [i \in DOMAIN l |-> [user |-> l[i][1], path |-> l[i]]]
            /\ IF l = <<>> THEN a_pc' = "write" /\ a_i' = a_i
               ELSE a_pc' = "read" /\ a_i' = 1
            /\ a_exit' = a_exit
       \/ /\ AggCrash
          /\ UNCHANGED <<a_runs, a_i>>
    /\ UNCHANGED <<a_seen, a_out, a_written, orchVars, valVars>>

\* manifest = read_manifest(...); if not manifest: continue
ReadManifest(fetch) ==
    /\ a_pc = "read"
    /\ a_seen' = Append(a_seen, [fetch |-> fetch, energy |-> <<>>])
    /\ LET got == read_manifest(fetch)
       IN  IF got = <<>> THEN AggCrash /\ a_i' = a_i
           ELSE IF Falsy(got[1]) THEN AggAdvance /\ a_exit' = a_exit
           ELSE a_pc' = "summarize" /\ a_i' = a_i /\ a_exit' = a_exit
    /\ UNCHANGED <<a_runs, a_out, a_written, orchVars, valVars>>

\* out["runs"].append(summarize(manifest, r))
Summarize(listing) ==
    /\ a_pc = "summarize"
    /\ a_seen' = [a_seen EXCEPT ![a_i].energy = <<listing>>]
    /\ LET m == read_manifest(a_seen[a_i].fetch)[1]
       IN  IF ~m.isdict \/ listing = <<>>
           THEN \* manifest.get on a non-dict, or gh_contents raises
                /\ AggCrash /\ a_i' = a_i
                /\ a_out' = a_out
           ELSE /\ a_out' = Append(a_out, summarize(m.value, a_runs[a_i], listing[1]))
                /\ AggAdvance /\ a_exit' = a_exit
    /\ UNCHANGED <<a_runs, a_written, orchVars, valVars>>

\* out_path.write_text(json.dumps(out, indent=2)); return 0
WriteLeaderboard ==
    /\ a_pc = "write"
    /\ a_written' = << [runs |-> a_out] >>
    /\ a_pc' = "done"
    /\ a_exit' = <<0>>
    /\ UNCHANGED <<a_runs, a_i, a_seen, a_out, orchVars, valVars>>

AggInit ==
    /\ a_pc = "list" /\ a_runs = <<>> /\ a_i = 0 /\ a_seen = <<>>
    /\ a_out = <<>> /\ a_written = <<>> /\ a_exit = <<>>

AggNext ==
    \/ ListRuns
    \/ \E fetch \in Fetches : ReadManifest(fetch)
    \/ \E listing \in EnergyListings : Summarize(listing)
    \/ WriteLeaderboard

AggSpecInit == OrchIdle /\ ValIdle /\ AggInit

\* one build of the leaderboard
AggSpec == AggSpecInit /\ [][AggNext]_vars

\* ----------------- validate_manifest alone, over many names
ReChars == {"a", "Z", ":", "/", LF}

Rep(c, n) == [i \in 1..n |-> c]

ReStrs ==
    SeqsUpTo(ReChars, MaxLen)
    \cup {Rep("a", n) \o tail :
            n \in {UserMaxLen, UserMaxLen + 1, RunMaxLen, RunMaxLen + 1},
            tail \in {<<>>, <<LF>>}}

ReManifests ==
    {JsonFile(JObj([username |-> JStr(u), run_id |-> JStr(r)])) : u, r \in ReStrs}

\* the validator about to read the manifest of its first run directory
ReInit ==
    /\ v_pc = "manifest" /\ v_runs = << <<<<"a">>, <<"r">>>> >> /\ v_i = 1
    /\ v_fs = <<Unread>> /\ v_out = <<"Validating">> /\ v_exit = <<>>

ReNext == \E file \in ReManifests : ValidateManifest(file)

ReSpecInit == OrchIdle /\ ReInit /\ AggIdle

ReSpec == ReSpecInit /\ [][ReNext]_vars

\* ======================================================= the claims
\* ---- orchestrator
FatalOps == <<"free", "allocate", "set_globals", "set_loop", "image",
              "bootparameters", "reset", "setup", "workload">>

\* the order the remote operations are listed in
ListedOrder == FatalOps \o <<"visualize", "upload">>

IsPrefix(s, t) == Len(s) <= Len(t) /\ \A i \in DOMAIN s : s[i] = t[i]

Ops(cs) == [i \in DOMAIN cs |-> cs[i].op]

\* the calls of the listed operations (the topology probe is not one of them)
ListedCalls == SelectSeq(calls, LAMBDA c : c.op # "show")

Issued(op) == \E i \in DOMAIN calls : calls[i].op = op
Succeeded(op) == \E i \in DOMAIN calls : calls[i].op = op /\ calls[i].ok
Failed(op) == \E i \in DOMAIN calls : calls[i].op = op /\ ~calls[i].ok

FatalDone == \A op \in Range(FatalOps) : Succeeded(op)

Terminal == pc \in {"done", "crashed"}

\* C1: the remote operations are issued in the listed order, each only after
\* the one before it returned successfully; allocate is issued at most once
\* and only after free; publishing and the manifest write come only after
\* the visualization.
C1_StrictOrder ==
    /\ IsPrefix(Ops(ListedCalls), ListedOrder)
    /\ \A i \in DOMAIN calls : i < Len(calls) => calls[i].ok
    /\ Cardinality({i \in DOMAIN calls : calls[i].op = "allocate"}) <= 1
    /\ Issued("allocate") => Succeeded("free")
    /\ Issued("upload") => args.publish /\ Succeeded("visualize")
    /\ submission # <<>> =>
          /\ Succeeded("visualize")
          /\ args.publish => Succeeded("upload")

C1_Witness ==
    /\ pc = "done" /\ script = ScriptNew /\ args.publish
    /\ submission # <<>>
    /\ Len(calls) = 12

\* C2: when a fatal phase fails the run aborts: nothing is issued after the
\* failed call, no manifest and no submission directory exist, and the
\* process has ended with a non-zero status.
C2_FatalAborts ==
    (\/ \E op \in Range(FatalOps) : Failed(op)
     \/ pc = "crashed" /\ ~FatalDone)
    => /\ pc = "crashed"
       /\ exit_code # <<>> /\ exit_code[1] # 0
       /\ \A i \in DOMAIN calls : ~calls[i].ok => i = Len(calls)
       /\ ~Issued("visualize") /\ ~Issued("upload")
       /\ manifest = <<>> /\ submission = <<>>

C2_Witness ==
    /\ Failed("workload")
    /\ pc = "crashed"
    /\ Len(calls) = 10

\* C3 (as claimed): when a soft phase (visualization, upload) fails after
\* every fatal phase succeeded, the run ends with the manifest written and
\* status 0.
C3_SoftContinues ==
    (script = ScriptNew /\ Terminal /\ FatalDone
        /\ (Failed("visualize") \/ Failed("upload")))
    => /\ submission # <<>>
       /\ exit_code = <<0>>

\* C4 (as claimed): when publishing is requested and no token can be read,
\* upload is never called, the run does not fail and ends with status 0 and
\* (experiment/experiment.py) the manifest written with zenodo_html empty.
C4_NoTokenSkips ==
    (args.publish /\ token_file = "missing")
    => /\ ~Issued("upload")
       /\ pc # "crashed"
       /\ pc = "done" =>
             /\ exit_code = <<0>>
             /\ script = ScriptNew =>
                   /\ submission # <<>>
                   /\ submission[1].manifest.zenodo_html = ""

\* the detected count of the dimension the run loops over, and the cap
DetectedCount ==
    IF script = ScriptNew THEN LoopCountNew(args, cores, threads)
    ELSE IF args.loop_dimension = "threads" THEN threads ELSE cores

ClaimedN ==
    Max(1, IF args.loop_max = <<>> THEN DetectedCount
           ELSE Min(DetectedCount, args.loop_max[1]))

\* C5 (as claimed): the series sent to the remote plane is [1..N] with
\* N = min(detected count, cap) clamped to at least 1; it is never empty.
C5_SeriesClamped ==
    \A i \in DOMAIN calls :
        calls[i].op = "set_loop" =>
            /\ calls[i].arg = [k \in 1..ClaimedN |-> k]
            /\ calls[i].arg # <<>>

\* the list without repeats, in order of first occurrence
RECURSIVE Dedup(_)
Dedup(s) ==
    IF s = <<>> THEN <<>>
    ELSE LET front == Dedup(SubSeq(s, 1, Len(s) - 1))
             last == s[Len(s)]
         IN  IF last \in Range(front) THEN front ELSE Append(front, last)

\* C6 (as claimed): the value passed to bootparameters holds each distinct
\* configured parameter once, in order of first occurrence.
C6_BootParamsDeduplicated ==
    \A i \in DOMAIN calls :
        calls[i].op = "bootparameters" =>
            calls[i].arg = Join(Dedup(args.bootparam))

\* ---- validator
ManifestOf(i) == v_fs[i].manifest[1]

\* validate_manifest returned for run directory i
PassedManifest(i) ==
    v_fs[i].manifest # <<>> /\ ManifestErrors(ManifestOf(i)) = <<>>

\* the identity comparison of run directory i has been made
IdentityDecided(i) == i < v_i \/ v_pc \notin {"manifest", "identity"}

Mismatch(i) ==
    \/ ManifestOf(i).value.f.username.v # v_runs[i][1]
    \/ ManifestOf(i).value.f.run_id.v # v_runs[i][2]

MismatchLines ==
    {"::error::manifest.username does not match folder name",
     "::error::manifest.run_id does not match folder name"}

\* C7: a run directory whose manifest names another user than its parent
\* directory, or another run id than the directory itself, is rejected with
\* an error and exit status 1; the validator exits 0 only when both are
\* equal for every run directory.
C7_IdentityEnforced ==
    /\ \A i \in DOMAIN v_fs :
          (PassedManifest(i) /\ IdentityDecided(i) /\ Mismatch(i))
          => /\ i = v_i
             /\ v_pc = "failed" /\ v_exit = <<1>>
             /\ v_out[Len(v_out)] \in MismatchLines
             /\ v_fs[i].pngs = <<>>
    /\ v_exit = <<0>> =>
          \A i \in DOMAIN v_runs :
              /\ i \in DOMAIN v_fs
              /\ PassedManifest(i)
              /\ ~Mismatch(i)

C7_Witness ==
    /\ v_pc = "failed"
    /\ v_out[Len(v_out)] = "::error::manifest.run_id does not match folder name"
    /\ ManifestOf(v_i).value.f.username.v = v_runs[v_i][1]

\* the whitelist as stated: lo to hi characters, all of the class
Whitelisted(s, class, lo, hi) ==
    /\ Len(s) >= lo /\ Len(s) <= hi
    /\ \A i \in DOMAIN s : s[i] \in class

\* C8 (as claimed): a manifest is accepted exactly when its username is 1 to
\* 40 characters of [a-z0-9._-] and its run_id 1 to 80 characters of
\* [a-zA-Z0-9._:-]; a name with any other character, a line break included,
\* is rejected.
C8_WhitelistEnforced ==
    \A i \in DOMAIN v_fs :
        (v_fs[i].manifest # <<>>
            /\ ManifestOf(i).kind = "json"
            /\ SchemaErrors(ManifestOf(i).value) = <<>>)
        => (PassedManifest(i)
            <=> /\ Whitelisted(ManifestOf(i).value.f.username.v, UserClass, 1, UserMaxLen)
                /\ Whitelisted(ManifestOf(i).value.f.run_id.v, RunClass, 1, RunMaxLen))

\* every check the validator makes on run directory i came out clean
RunPasses(i) ==
    /\ PassedManifest(i)
    /\ IdentityErrors(ManifestOf(i).value, v_runs[i][1], v_runs[i][2]) = <<>>
    /\ Len(v_fs[i].pngs) = Len(PngNames)
    /\ \A k \in DOMAIN v_fs[i].pngs : PngErrors(v_fs[i].pngs[k]) = <<>>
    /\ v_fs[i].config # <<>>
    /\ HardwareErrors(v_fs[i].config[1]) = <<>>

\* one of the checks made on run directory i found a violation
RunViolates(i) ==
    \/ v_fs[i].manifest # <<>> /\ ManifestErrors(ManifestOf(i)) # <<>>
    \/ /\ PassedManifest(i) /\ IdentityDecided(i)
       /\ IdentityErrors(ManifestOf(i).value, v_runs[i][1], v_runs[i][2]) # <<>>
    \/ \E k \in DOMAIN v_fs[i].pngs : PngErrors(v_fs[i].pngs[k]) # <<>>
    \/ v_fs[i].config # <<>> /\ HardwareErrors(v_fs[i].config[1]) # <<>>

\* what fail prints last
FailLines ==
    {"::error::Missing manifest.json", "::error::manifest.json not valid JSON",
     "::error::manifest schema validation failed",
     "::error::username has invalid characters",
     "::error::run_id has invalid characters",
     "::error::Missing PNG", "::error::PNG too large", "::error::Invalid PNG",
     "::error::hardware.json invalid JSON"} \cup MismatchLines

Count(seq, x) == Cardinality({i \in DOMAIN seq : seq[i] = x})

\* C9: validation is fail-fast: the first violation ends the validator with
\* status 1 right after an error line, no run directory after the failing
\* one is examined, and status 0 is returned only when every run directory
\* was examined and passed every check.
C9_FailFast ==
    /\ Len(v_fs) = v_i
    /\ Count(v_out, "Validating") = v_i
    /\ \A i \in DOMAIN v_fs : i < v_i => RunPasses(i)
    /\ \A i \in DOMAIN v_fs : RunViolates(i) =>
          /\ i = v_i
          /\ v_pc = "failed" /\ v_exit = <<1>>
          /\ v_out[Len(v_out)] \in FailLines
          /\ Count(v_out, v_out[Len(v_out)]) = 1
    /\ v_pc = "failed" => ~ENABLED ValNext
    /\ v_exit # <<>> => v_exit[1] \in {0, 1}
    /\ v_exit = <<1>> => v_pc = "failed" /\ RunViolates(v_i)
    /\ v_exit = <<0>> =>
          /\ v_pc = "done"
          /\ v_i = Len(v_runs)
          /\ \A i \in DOMAIN v_runs : RunPasses(i)
          /\ v_runs # <<>> => v_out[Len(v_out)] = "All submissions validated."

C9_Witness ==
    /\ v_pc = "failed"
    /\ Len(v_runs) = 2
    /\ v_i = 1
    /\ Len(v_fs[1].pngs) = 2

\* ---- aggregator
\* the manifest of run i was fetched and is a JSON object with content
Readable(i) ==
    /\ a_seen[i].fetch.kind = "json"
    /\ a_seen[i].fetch.isdict
    /\ ~Falsy(a_seen[i].fetch)

\* the manifest of run i could not be fetched or read
Unreadable(i) == a_seen[i].fetch.kind \in {"not_found", "http_error", "bad_json"}

\* C10 (as claimed): a run whose manifest cannot be fetched or read is
\* skipped, and every other run still gets exactly one record in the
\* leaderboard document that is written.
C10_FailuresIsolated ==
    (/\ a_pc \in {"done", "crashed"}
     /\ \E i \in DOMAIN a_seen : Readable(i)
     /\ \A i \in DOMAIN a_seen :
           \/ Unreadable(i)
           \/ Readable(i) /\ a_seen[i].energy # <<>> /\ a_seen[i].energy[1] # <<>>)
    => /\ a_written # <<>>
       /\ Len(a_seen) = Len(a_runs)
       /\ Len(a_written[1].runs) = Cardinality({i \in DOMAIN a_seen : Readable(i)})

\* the code point of a character of the names used here
Code(c) ==
    CASE c = "1" -> 49 [] c = ":" -> 58 [] c = "R" -> 82
      [] c = "a" -> 97 [] c = "b" -> 98 [] c = "r" -> 114

\* s <= t as strings
RECURSIVE StrLeq(_, _)
StrLeq(s, t) ==
    IF s = <<>> THEN TRUE
    ELSE IF t = <<>> THEN FALSE
    ELSE IF s[1] = t[1] THEN StrLeq(Tail(s), Tail(t))
    ELSE Code(s[1]) < Code(t[1])

\* record x is not after record y in the order by user, then run id
RecordLeq(x, y) ==
    IF x.user = y.user THEN StrLeq(x.id, y.id) ELSE StrLeq(x.user, y.user)

OrderedByUserThenId(runs) ==
    \A i, j \in DOMAIN runs : i < j => RecordLeq(runs[i], runs[j])

\* C11 (as claimed): whatever order the remote listing returned the users
\* and runs in, the records of the leaderboard document that is written are
\* ordered by user and then by run id.
C11_OrderDeterministic ==
    a_written # <<>> => OrderedByUserThenId(a_written[1].runs)

\* ---- end to end: the submission the orchestrator wrote, under the validator
\* json.dump(manifest, f) as json.loads reads it back: str -> string,
\* bool -> boolean, dict -> object, list -> array, None -> null
json_dump(m) ==
    JObj([run_id |-> JStr(m.run_id),
          node |-> JStr(m.node),
          created |-> JStr(m.created),
          username |-> JStr(m.username),
          author |-> JObj(m.author),
          processor |-> JList,
          threading_enabled |-> JBool(m.threading_enabled),
          metrics |-> JObj(m.metrics),
          zenodo_html |-> JStr(m.zenodo_html)])

\* the validator's checks on the directory submission/<username>/<run_id>/
\* (of the plots only that each of the four files is there)
ValidatorAccepts(sub) ==
    LET file == JsonFile(json_dump(sub.manifest))
    IN  /\ ManifestErrors(file) = <<>>
        /\ IdentityErrors(file.value, sub.username, sub.run_id) = <<>>
        /\ \A name \in Range(PngNames) : name \in sub.energy

\* C12 (as claimed): a successful run of experiment/experiment.py with
\* hyperthreading disabled and publish not requested leaves a submission
\* directory whose manifest has threading_enabled false and zenodo_html
\* empty, and which the validator accepts.
C12_EndToEndAccepted ==
    (/\ script = ScriptNew /\ pc = "done" /\ exit_code = <<0>>
     /\ ~args.enable_hyperthreading /\ ~args.publish)
    => /\ submission # <<>>
       /\ submission[1].manifest.threading_enabled = FALSE
       /\ submission[1].manifest.zenodo_html = ""
       /\ ValidatorAccepts(submission[1])

\* ---- loop sizing
\* thread-based looping was asked for on the command line
ThreadsRequested ==
    IF script = ScriptNew THEN args.enable_hyperthreading
    ELSE args.loop_dimension = "threads"

\* the topology probe answered and the loop series was computed
Sized == \E i \in DOMAIN calls : calls[i].op = "show" /\ calls[i].ok

\* the series the script computes from the core count, and from the thread
\* count when that is not zero
CoreSeries ==
    LoopSeries(script,
               [args EXCEPT !.enable_hyperthreading = FALSE, !.loop_dimension = "cores"],
               cores, threads)

ThreadSeries ==
    LoopSeries(script,
               [args EXCEPT !.enable_hyperthreading = TRUE, !.loop_dimension = "threads"],
               cores, threads)

\* C13 (as claimed): the loop series is computed from the thread count only
\* when thread-based looping was requested and the detected thread count is
\* not zero, and from the core count otherwise; with threads requested and
\* none detected it is the core-based series and is not empty.  (Stated for
\* a node with at least one core, where the core-based series is not empty.)
C13_ThreadFallback ==
    (Sized /\ cores > 0) =>
        /\ loop_vars = IF ThreadsRequested /\ threads # 0
                       THEN ThreadSeries ELSE CoreSeries
        /\ (ThreadsRequested /\ threads = 0) => loop_vars # <<>>

\* ---- processor list of the manifest
\* nothing was read from hardware.json: the file is absent, unreadable or empty
NoHardwareData == hw_json[1] = HwDict(EmptyDict)

\* a JSON object with fields, none of them a processor list
FlatHardware ==
    /\ hw_json[1].kind = "dict"
    /\ DOMAIN hw_json[1].d # {}
    /\ "processor" \notin DOMAIN hw_json[1].d

\* C14 (as claimed): the manifest's processor list is empty only when there
\* is no hardware data at all; a descriptor with flat fields and no
\* processor list gives exactly one entry, with the flat core count, and the
\* thread count taken from the cores when no thread count is given.
C14_ProcessorList ==
    manifest # <<>> =>
        LET procs == manifest[1].processor
            hw == hw_json[1].d
        IN  /\ DOMAIN procs = 1..Len(procs)
            /\ Len(procs) = 0 => NoHardwareData
            /\ FlatHardware =>
                  /\ Len(procs) = 1
                  /\ procs[1].cores = OrInt(GetInt(hw, "cores"), GetInt(hw, "cpu_cores"))
                  /\ ({"threads", "cpu_threads"} \cap DOMAIN hw = {})
                        => procs[1].threads = procs[1].cores

\* ---- hardware descriptors
\* config/ of run directory i was examined and the hardware.json of one of
\* its node directories does not parse
HasInvalidHardware(i) ==
    /\ v_fs[i].config # <<>>
    /\ \E k \in DOMAIN v_fs[i].config[1].nodes : v_fs[i].config[1].nodes[k] = "invalid"

\* C15 (as claimed): a run directory with a hardware.json that does not
\* parse, under whichever node directory of config/, fails validation.
C15_EveryNodeChecked ==
    \A i \in DOMAIN v_fs :
        HasInvalidHardware(i) =>
            /\ v_pc = "failed" /\ v_i = i /\ v_exit = <<1>>
            /\ v_out[Len(v_out)] = "::error::hardware.json invalid JSON"

\* ---- plot images
\* a plot file the claim rejects: missing, larger than 5 MB, or not an image
BadPlot(file) ==
    \/ file.kind = "missing"
    \/ file.kind = "file" /\ file.size > 5 * 1024 * 1024
    \/ file.kind = "file" /\ ~file.image

PngFailLines ==
    {"::error::Missing PNG", "::error::PNG too large", "::error::Invalid PNG"}

\* validation stopped on a plot of run directory i
FailedOnPlot(i) ==
    v_pc = "failed" /\ v_i = i /\ v_out[Len(v_out)] \in PngFailLines

\* the plots of run directory i have all been examined and passed
PlotsAccepted(i) ==
    \/ i < v_i
    \/ i = v_i /\ v_pc \in {"hardware", "done"}
    \/ i = v_i /\ v_pc = "failed" /\ v_out[Len(v_out)] = "::error::hardware.json invalid JSON"

\* C16: a run directory gets past the plot checks only with all four plots
\* present, of at most 5 MB (5 MB itself included) and valid images; the
\* validator fails on a plot exactly when that plot is missing, larger than
\* 5 MB or not an image, and then with status 1.
C16_PlotsChecked ==
    \A i \in DOMAIN v_fs :
        LET pngs == v_fs[i].pngs
        IN  /\ PlotsAccepted(i) =>
                  /\ Len(pngs) = Len(PngNames)
                  /\ \A k \in DOMAIN pngs : ~BadPlot(pngs[k])
            /\ \A k \in DOMAIN pngs :
                  BadPlot(pngs[k]) <=> (FailedOnPlot(i) /\ k = Len(pngs))
            /\ FailedOnPlot(i) => (pngs # <<>> /\ v_exit = <<1>>)

\* a plot of exactly 5 MB passed and the next one, one byte larger, failed
C16_Witness ==
    /\ v_pc = "failed"
    /\ v_out[Len(v_out)] = "::error::PNG too large"
    /\ Len(v_fs[v_i].pngs) >= 2
    /\ v_fs[v_i].pngs[1] = Png(MAX_PNG_MB * MB, TRUE)
    /\ v_fs[v_i].pngs[Len(v_fs[v_i].pngs)].size = MAX_PNG_MB * MB + 1

====
